---- MODULE Spec2Model ----
(***************************************************************************)
(* A model of the Super Simple Logger: the template formatter              *)
(* (formatString), the synchronous logger factory (createLogger) and the   *)
(* asynchronous logger factory (createAsyncLogger).                        *)
(*                                                                         *)
(* Texts are TLA+ strings; String.prototype.replace, Date.toISOString and  *)
(* Object.keys are modelled by what ECMAScript says they do.               *)
(***************************************************************************)
EXTENDS Integers, Sequences, FiniteSets, TLC

(***************************************************************************)
(* Bounds of the model.                                                    *)
(***************************************************************************)
MaxCalls == 2
MaxTicks == 1
MaxPieces == 2

(***************************************************************************)
(* enum LogLevel and the LogLevelStr table.                                *)
(***************************************************************************)
ERROR == 0
WARN == 1
INFO == 2
DEBUG == 3
TRACE == 4

LogLevel == {ERROR, WARN, INFO, DEBUG, TRACE}

LogLevelStr == [l \in LogLevel |->
    CASE l = ERROR -> "ERROR"
      [] l = WARN  -> "WARN"
      [] l = INFO  -> "INFO"
      [] l = DEBUG -> "DEBUG"
      [] l = TRACE -> "TRACE"]

defaultLoggerFormat == "[level=$logLevel, module=$moduleName, $formattedTimestamp]: $message"

(***************************************************************************)
(* Strings.                                                                *)
(***************************************************************************)
Letters == {"a","b","c","d","e","f","g","h","i","j","k","l","m",
            "n","o","p","q","r","s","t","u","v","w","x","y","z",
            "A","B","C","D","E","F","G","H","I","J","K","L","M",
            "N","O","P","Q","R","S","T","U","V","W","X","Y","Z"}

CharAt(s, i) == SubSeq(s, i, i)

\* the grave accent and the apostrophe, which the replacement patterns use
GraveAndApostrophe == "`'"
Grave == SubSeq(GraveAndApostrophe, 1, 1)
Apostrophe == SubSeq(GraveAndApostrophe, 2, 2)

StartsWithAt(s, i, pat) ==
    /\ i >= 1
    /\ i + Len(pat) - 1 <= Len(s)
    /\ SubSeq(s, i, i + Len(pat) - 1) = pat

\* the first position from i on at which pat occurs in s; 0 when there is none
RECURSIVE IndexFrom(_, _, _)
IndexFrom(s, pat, i) ==
    IF i + Len(pat) - 1 > Len(s) THEN 0
    ELSE IF StartsWithAt(s, i, pat) THEN i
    ELSE IndexFrom(s, pat, i + 1)

\* String.prototype.indexOf, 1-based; 0 when pat does not occur
IndexOf(s, pat) == IndexFrom(s, pat, 1)

\* the positions at which pat occurs in s
Occurrences(s, pat) == {i \in 1..Len(s) : StartsWithAt(s, i, pat)}

\* GetSubstitution of ECMAScript for a string pattern (no capture groups):
\* in the replacement text $$ stands for $, $& for the matched text,
\* $ followed by a grave accent for the text before the match and $ followed
\* by an apostrophe for the text after it; any other $ is literal.
RECURSIVE GetSubstitution(_, _, _, _)
GetSubstitution(matched, before, after, replacement) ==
    LET i == IndexOf(replacement, "$")
    IN IF i = 0 \/ i = Len(replacement) THEN replacement
       ELSE LET c == CharAt(replacement, i + 1)
                head == SubSeq(replacement, 1, i - 1)
            IN IF c \in {"$", "&", Grave, Apostrophe}
               THEN LET exp == CASE c = "$" -> "$"
                                 [] c = "&" -> matched
                                 [] c = Grave -> before
                                 [] c = Apostrophe -> after
                    IN head \o exp
                       \o GetSubstitution(matched, before, after,
                              SubSeq(replacement, i + 2, Len(replacement)))
               ELSE head \o "$"
                    \o GetSubstitution(matched, before, after,
                           SubSeq(replacement, i + 1, Len(replacement)))

\* a variant of Replace that replaces every occurrence (a global replace)
RECURSIVE Replace_all(_, _, _)
Replace_all(s, pat, replacement) ==
    LET i == IndexOf(s, pat)
    IN IF i = 0 \/ Len(pat) = 0 THEN s
       ELSE LET before == SubSeq(s, 1, i - 1)
                after == SubSeq(s, i + Len(pat), Len(s))
            IN before \o GetSubstitution(pat, before, after, replacement)
               \o Replace_all(after, pat, replacement)

\* String.prototype.replace(pattern, replacement) with a string pattern:
\* only the first occurrence is replaced.
Replace(s, pat, replacement) ==
    LET i == IndexOf(s, pat)
    IN IF i = 0 THEN s
       ELSE LET before == SubSeq(s, 1, i - 1)
                after == SubSeq(s, i + Len(pat), Len(s))
            IN before \o GetSubstitution(pat, before, after, replacement) \o after

\* a variant of formatString whose pattern is the bare $, without the key
RECURSIVE formatString_bareDollar(_, _)
formatString_bareDollar(template, parameters) ==
    IF parameters = <<>> THEN template
    ELSE formatString_bareDollar(Replace(template, "$", Head(parameters).value),
                                 Tail(parameters))

\* Object.keys(parameters).reduce(...): parameters is the sequence of the
\* object's [key, value] pairs in insertion order.
RECURSIVE formatString(_, _)
formatString(template, parameters) ==
    IF parameters = <<>> THEN template
    ELSE formatString(Replace(template, "$" \o Head(parameters).key,
                              Head(parameters).value),
                      Tail(parameters))

(***************************************************************************)
(* Time.  A time value is the pair of ECMAScript's Day(t) and              *)
(* TimeWithinDay(t): the days since 1970-01-01 and the milliseconds within *)
(* that day.                                                               *)
(***************************************************************************)
msPerDay == 86400000

DigitStr == <<"0", "1", "2", "3", "4", "5", "6", "7", "8", "9">>

Digit(d) == DigitStr[d + 1]

Pad2(n) == Digit((n \div 10) % 10) \o Digit(n % 10)

Pad3(n) == Digit((n \div 100) % 10) \o Pad2(n)

Pad4(n) == Digit((n \div 1000) % 10) \o Pad3(n)

\* the civil date [y, m, d] of a day number (proleptic Gregorian calendar)
DateFromDay(day) ==
    LET z == day + 719468
        era == z \div 146097
        doe == z - era * 146097
        yoe == (doe - doe \div 1460 + doe \div 36524 - doe \div 146096) \div 365
        doy == doe - (365 * yoe + yoe \div 4 - yoe \div 100)
        mp == (5 * doy + 2) \div 153
        d == doy - (153 * mp + 2) \div 5 + 1
        m == IF mp < 10 THEN mp + 3 ELSE mp - 9
        y == yoe + era * 400 + (IF m <= 2 THEN 1 ELSE 0)
    IN [y |-> y, m |-> m, d |-> d]

\* Date.prototype.toISOString: YYYY-MM-DDTHH:mm:ss.sssZ, in UTC
toISOString(t) ==
    LET date == DateFromDay(t.day)
        hour == t.ms \div 3600000
        min == (t.ms \div 60000) % 60
        sec == (t.ms \div 1000) % 60
        milli == t.ms % 1000
    IN Pad4(date.y) \o "-" \o Pad2(date.m) \o "-" \o Pad2(date.d) \o "T"
       \o Pad2(hour) \o ":" \o Pad2(min) \o ":" \o Pad2(sec) \o "." \o Pad3(milli) \o "Z"

\* the time one millisecond after t
Advance(t) ==
    IF t.ms + 1 < msPerDay THEN [t EXCEPT !.ms = t.ms + 1]
    ELSE [day |-> t.day + 1, ms |-> 0]

(***************************************************************************)
(* The inputs the model draws from.                                        *)
(***************************************************************************)
\* 2021-12-31T23:59:59.999Z
StartClocks == {[day |-> 18992, ms |-> 86399999]}

ModuleNames == {"MAIN", "$message"}

Messages == {"hello"}

Formats == {defaultLoggerFormat, "$formattedTimestamp $message"}

(***************************************************************************)
(* State.                                                                  *)
(***************************************************************************)
VARIABLES
    kind,         \* which factory built the logger: "sync" or "async"
    moduleName,   \* configuration captured by createLogger / createAsyncLogger
    logLevel,     \* the threshold captured at creation
    format,       \* the template captured at creation
    clock,        \* the wall clock
    ticks,        \* how often the clock has advanced
    calls,        \* the logging calls made so far, with what each returned
    sinkLog,      \* the invocations of outputSink, in order
    promises,     \* the promises created so far and their states
    fmt           \* one application of the formatter to drawn inputs

vars == <<kind, moduleName, logLevel, format, clock, ticks, calls, sinkLog, promises, fmt>>

\* a variant of Now that is the epoch, as new Date(0) would be
Now_epoch == [day |-> 0, ms |-> 0]

\* new Date()
Now == clock

\* the parameters object of logFormattedMessage, as its [key, value] pairs in
\* insertion order
Parameters(name, formattedTimestamp, level, message) ==
    << [key |-> "moduleName", value |-> name],
       [key |-> "formattedTimestamp", value |-> formattedTimestamp],
       [key |-> "logLevel", value |-> LogLevelStr[level]],
       [key |-> "message", value |-> message] >>

\* formattedMessage of logFormattedMessage
FormattedMessage(tmpl, name, time, level, message) ==
    formatString(tmpl, Parameters(name, toISOString(time), level, message))

Call(logger, level, message, result, promise) ==
    [logger |-> logger, level |-> level, message |-> message, time |-> clock,
     result |-> result, promise |-> promise]

SinkInvocation(logger, text, threw, promise) ==
    [logger |-> logger, text |-> text, call |-> Len(calls) + 1, time |-> clock,
     threw |-> threw, promise |-> promise]

(***************************************************************************)
(* createLogger: the synchronous logger.                                   *)
(***************************************************************************)
\* a variant of logFormattedMessage that hands the text to the sink twice
logFormattedMessage_twice(level, message) ==
    \E threw \in BOOLEAN :
        LET invocation == SinkInvocation("sync",
                FormattedMessage(format, moduleName, Now, level, message), threw, 0)
        IN /\ sinkLog' = Append(Append(sinkLog, invocation), invocation)
           /\ calls' = Append(calls,
                  Call("sync", level, message,
                       IF threw THEN "threw" ELSE "returned", 0))
           /\ UNCHANGED promises

\* the sink is the caller's: it returns or it throws
logFormattedMessage(level, message) ==
    \E threw \in BOOLEAN :
        /\ sinkLog' = Append(sinkLog,
               SinkInvocation("sync",
                   FormattedMessage(format, moduleName, Now, level, message),
                   threw, 0))
        /\ calls' = Append(calls,
               Call("sync", level, message,
                    IF threw THEN "threw" ELSE "returned", 0))
        /\ UNCHANGED promises

\* a variant of filterAndLogMessage that compares with < instead of <=
filterAndLogMessage_strict(requiredLogLevel, message) ==
    /\ kind = "sync"
    /\ Len(calls) < MaxCalls
    /\ IF requiredLogLevel < logLevel
       THEN logFormattedMessage(requiredLogLevel, message)
       ELSE /\ calls' = Append(calls,
                   Call("sync", requiredLogLevel, message, "returned", 0))
            /\ UNCHANGED <<sinkLog, promises>>
    /\ UNCHANGED <<kind, moduleName, logLevel, format, clock, ticks, fmt>>

filterAndLogMessage(requiredLogLevel, message) ==
    /\ kind = "sync"
    /\ Len(calls) < MaxCalls
    /\ IF requiredLogLevel <= logLevel
       THEN logFormattedMessage(requiredLogLevel, message)
       ELSE /\ calls' = Append(calls,
                   Call("sync", requiredLogLevel, message, "returned", 0))
            /\ UNCHANGED <<sinkLog, promises>>
    /\ UNCHANGED <<kind, moduleName, logLevel, format, clock, ticks, fmt>>

error == \E message \in Messages : filterAndLogMessage(ERROR, message)
warn == \E message \in Messages : filterAndLogMessage(WARN, message)
info == \E message \in Messages : filterAndLogMessage(INFO, message)
debug == \E message \in Messages : filterAndLogMessage(DEBUG, message)
trace == \E message \in Messages : filterAndLogMessage(TRACE, message)

(***************************************************************************)
(* createAsyncLogger: the asynchronous logger.                             *)
(***************************************************************************)
\* a variant of asyncLogFormattedMessage that contains the sink's failure:
\* it returns outputSink(..).catch(() => {}), a promise of its own
asyncLogFormattedMessage_caught(level, message) ==
    LET text == FormattedMessage(format, moduleName, Now, level, message)
        p == Len(promises) + 1
    IN /\ promises' = Append(Append(promises, [origin |-> "sink", state |-> "pending"]),
                             [origin |-> "logger", state |-> "fulfilled"])
       /\ sinkLog' = Append(sinkLog, SinkInvocation("async", text, FALSE, p))
       /\ calls' = Append(calls, Call("async", level, message, "promise", p + 1))

\* a variant of asyncLogFormattedMessage that queues the text while an earlier
\* delivery is pending instead of invoking the sink
asyncLogFormattedMessage_queued(level, message) ==
    LET text == FormattedMessage(format, moduleName, Now, level, message)
        p == Len(promises) + 1
        busy == \E q \in DOMAIN promises : promises[q].state = "pending"
    IN /\ promises' = Append(promises,
              [origin |-> IF busy THEN "logger" ELSE "sink", state |-> "pending"])
       /\ sinkLog' = IF busy THEN sinkLog
                     ELSE Append(sinkLog, SinkInvocation("async", text, FALSE, p))
       /\ calls' = Append(calls, Call("async", level, message, "promise", p))

\* the sink is the caller's: it returns a promise, which it settles later
\* (outputSink: (message: string) => Promise<void>)
asyncLogFormattedMessage(level, message) ==
    LET text == FormattedMessage(format, moduleName, Now, level, message)
        p == Len(promises) + 1
    IN /\ promises' = Append(promises, [origin |-> "sink", state |-> "pending"])
       /\ sinkLog' = Append(sinkLog, SinkInvocation("async", text, FALSE, p))
       /\ calls' = Append(calls, Call("async", level, message, "promise", p))

\* a variant of asyncFilterAndLogMessage whose suppressed call returns a
\* promise that is still pending
asyncFilterAndLogMessage_pending(requiredLogLevel, message) ==
    /\ kind = "async"
    /\ Len(calls) < MaxCalls
    /\ IF requiredLogLevel <= logLevel
       THEN asyncLogFormattedMessage(requiredLogLevel, message)
       ELSE /\ promises' = Append(promises, [origin |-> "logger", state |-> "pending"])
            /\ calls' = Append(calls,
                   Call("async", requiredLogLevel, message, "promise", Len(promises) + 1))
            /\ UNCHANGED sinkLog
    /\ UNCHANGED <<kind, moduleName, logLevel, format, clock, ticks, fmt>>

asyncFilterAndLogMessage(requiredLogLevel, message) ==
    /\ kind = "async"
    /\ Len(calls) < MaxCalls
    /\ IF requiredLogLevel <= logLevel
       THEN asyncLogFormattedMessage(requiredLogLevel, message)
       ELSE \* (async () => {})(): a new promise, already fulfilled
            /\ promises' = Append(promises, [origin |-> "logger", state |-> "fulfilled"])
            /\ calls' = Append(calls,
                   Call("async", requiredLogLevel, message, "promise", Len(promises) + 1))
            /\ UNCHANGED sinkLog
    /\ UNCHANGED <<kind, moduleName, logLevel, format, clock, ticks, fmt>>

asyncError == \E message \in Messages : asyncFilterAndLogMessage(ERROR, message)
asyncWarn == \E message \in Messages : asyncFilterAndLogMessage(WARN, message)
asyncInfo == \E message \in Messages : asyncFilterAndLogMessage(INFO, message)
asyncDebug == \E message \in Messages : asyncFilterAndLogMessage(DEBUG, message)
asyncTrace == \E message \in Messages : asyncFilterAndLogMessage(TRACE, message)

(***************************************************************************)
(* The environment: time passes, and the sink settles its promises.        *)
(***************************************************************************)
Tick ==
    /\ ticks < MaxTicks
    /\ clock' = Advance(clock)
    /\ ticks' = ticks + 1
    /\ UNCHANGED <<kind, moduleName, logLevel, format, calls, sinkLog, promises, fmt>>

Settle(p, outcome) ==
    /\ promises[p].state = "pending"
    /\ promises' = [promises EXCEPT ![p].state = outcome]
    /\ UNCHANGED <<kind, moduleName, logLevel, format, clock, ticks, calls, sinkLog, fmt>>

Resolve == \E p \in DOMAIN promises : Settle(p, "fulfilled")
Reject == \E p \in DOMAIN promises : Settle(p, "rejected")

FmtIdle == [pc |-> "idle", template |-> "", moduleName |-> "", level |-> ERROR,
            message |-> "", time |-> [day |-> 0, ms |-> 0], out |-> ""]

Init ==
    /\ kind \in {"sync", "async"}
    /\ moduleName \in ModuleNames
    /\ logLevel \in LogLevel
    /\ format \in Formats
    /\ clock \in StartClocks
    /\ ticks = 0
    /\ calls = <<>>
    /\ sinkLog = <<>>
    /\ promises = <<>>
    /\ fmt = FmtIdle

Next ==
    \/ error \/ warn \/ info \/ debug \/ trace
    \/ asyncError \/ asyncWarn \/ asyncInfo \/ asyncDebug \/ asyncTrace
    \/ Tick \/ Resolve \/ Reject

Spec == Init /\ [][Next]_vars


(***************************************************************************)
(* The formatter on its own: the text logFormattedMessage builds for one   *)
(* template, module name, level, message and time.                         *)
(***************************************************************************)
TemplatePieces == {"$message", "$moduleName", "$logLevel", "$formattedTimestamp",
                   "$unknown", "s", " ", "$"}

RECURSIVE Concatenations(_)
Concatenations(n) ==
    IF n = 0 THEN {""}
    ELSE {a \o b : a \in Concatenations(n - 1), b \in TemplatePieces \cup {""}}

Templates ==
    Concatenations(MaxPieces)
        \cup {defaultLoggerFormat, "$message $message", "$unknown $messages"}

FmtModuleNames == {"MAIN", "$message", "$formattedTimestamp", "$&"}

FmtMessages == {"hello", "$message", "a$$b", "$&", "$" \o Grave, "$'"}

FmtInit ==
    /\ fmt \in [pc : {"ready"}, template : Templates, moduleName : FmtModuleNames,
                level : LogLevel, message : FmtMessages, time : StartClocks,
                out : {""}]
    /\ kind = "sync"
    /\ moduleName = "GLOBAL"
    /\ logLevel = INFO
    /\ format = defaultLoggerFormat
    /\ clock \in StartClocks
    /\ ticks = 0
    /\ calls = <<>>
    /\ sinkLog = <<>>
    /\ promises = <<>>

Format ==
    /\ fmt.pc = "ready"
    /\ fmt' = [fmt EXCEPT !.pc = "done",
                          !.out = FormattedMessage(fmt.template, fmt.moduleName,
                                                   fmt.time, fmt.level, fmt.message)]
    /\ UNCHANGED <<kind, moduleName, logLevel, format, clock, ticks, calls, sinkLog, promises>>

FmtNext == Format

FmtSpec == FmtInit /\ [][FmtNext]_vars

(***************************************************************************)
(* Notions the properties use.                                             *)
(***************************************************************************)
KeyNames == {"moduleName", "formattedTimestamp", "logLevel", "message"}

IsPrefix(k, w) == Len(k) <= Len(w) /\ SubSeq(w, 1, Len(k)) = k

Contains(s, pat) == Occurrences(s, pat) # {}

\* the last position of the run of letters that starts at j (j - 1 if none)
RECURSIVE LetterRun(_, _)
LetterRun(s, j) ==
    IF j <= Len(s) /\ CharAt(s, j) \in Letters THEN LetterRun(s, j + 1) ELSE j - 1

\* a token is a $ followed by a non-empty run of letters, taken as long as possible
TokenPositions(s) == {i \in 1..Len(s) : CharAt(s, i) = "$" /\ LetterRun(s, i + 1) > i}

TokenWord(s, i) == SubSeq(s, i + 1, LetterRun(s, i + 1))

TokenCount(s, w) == Cardinality({i \in TokenPositions(s) : TokenWord(s, i) = w})

\* the calls the level filter lets through
Emitted == {i \in DOMAIN calls : calls[i].level <= logLevel}

\* no replacement pattern of String.prototype.replace occurs in the value
NoReplacementPattern(v) ==
    \A c \in {"$", "&", Grave, Apostrophe} : ~Contains(v, "$" \o c)

\* substitution in one pass over the template: the first occurrence of each
\* key's placeholder becomes the key's value, and inserted text is not looked
\* at again
RECURSIVE InertFormat(_, _, _, _)
InertFormat(s, i, used, parameters) ==
    IF i > Len(s) THEN ""
    ELSE LET matching == {n \in DOMAIN parameters \ used :
                             StartsWithAt(s, i, "$" \o parameters[n].key)}
         IN IF matching # {}
            THEN LET n == CHOOSE m \in matching : TRUE
                 IN parameters[n].value
                    \o InertFormat(s, i + 1 + Len(parameters[n].key),
                                   used \cup {n}, parameters)
            ELSE CharAt(s, i) \o InertFormat(s, i + 1, used, parameters)

FmtParameters ==
    Parameters(fmt.moduleName, toISOString(fmt.time), fmt.level, fmt.message)

(***************************************************************************)
(* C1: a call at level L reaches the sink if and only if L <= the          *)
(* threshold the logger was created with, for both kinds of logger.        *)
(***************************************************************************)
C1_EmittedIffAtMostThreshold ==
    \A i \in DOMAIN calls :
        (\E j \in DOMAIN sinkLog : sinkLog[j].call = i) <=> calls[i].level <= logLevel

C1_Witness ==
    /\ logLevel = INFO
    /\ Len(calls) = 2
    /\ calls[1].level = DEBUG
    /\ calls[2].level = INFO
    /\ Len(sinkLog) = 1
    /\ sinkLog[1].call = 2

(***************************************************************************)
(* C2: the sink invocations are, one for one and in call order, the calls  *)
(* that were not suppressed; each is made during its call, and none is     *)
(* duplicated, retried, held back or dropped.                              *)
(***************************************************************************)
C2_SinkInvocationsMatchCalls ==
    /\ Len(sinkLog) = Cardinality(Emitted)
    /\ \A j \in DOMAIN sinkLog :
          /\ sinkLog[j].call \in Emitted
          /\ sinkLog[j].time = calls[sinkLog[j].call].time
          /\ sinkLog[j].logger = calls[sinkLog[j].call].logger
    /\ \A j, k \in DOMAIN sinkLog : j < k => sinkLog[j].call < sinkLog[k].call

C2_Witness ==
    /\ Len(calls) = 2
    /\ Len(sinkLog) = 2
    /\ sinkLog[1].call = 1
    /\ sinkLog[1].threw
    /\ sinkLog[2].call = 2

(***************************************************************************)
(* C3: with the default template the sink receives exactly                 *)
(* "[level=" name(L) ", module=" moduleName ", " T "]: " message, for      *)
(* every module name, level, message and timestamp.                        *)
(***************************************************************************)
C3_DefaultTemplateText ==
    format = defaultLoggerFormat =>
        \A j \in DOMAIN sinkLog :
            LET c == calls[sinkLog[j].call]
            IN sinkLog[j].text =
                   "[level=" \o LogLevelStr[c.level] \o ", module=" \o moduleName
                   \o ", " \o toISOString(c.time) \o "]: " \o c.message

(***************************************************************************)
(* C4: the logger passes the sink's failure on unchanged: a synchronous    *)
(* call throws exactly when the sink threw, and an asynchronous call       *)
(* returns the very promise the sink returned.                             *)
(***************************************************************************)
C4_SinkFailurePropagates ==
    \A j \in DOMAIN sinkLog :
        LET c == calls[sinkLog[j].call]
        IN IF sinkLog[j].logger = "sync"
           THEN c.result = (IF sinkLog[j].threw THEN "threw" ELSE "returned")
           ELSE /\ c.result = "promise"
                /\ c.promise = sinkLog[j].promise
                /\ promises[c.promise].origin = "sink"

C4_Witness ==
    \E i \in DOMAIN calls :
        /\ calls[i].logger = "async"
        /\ calls[i].level <= logLevel
        /\ calls[i].result = "promise"
        /\ promises[calls[i].promise].state = "rejected"

(***************************************************************************)
(* C5: a suppressed call on an async logger returns a promise that is      *)
(* already fulfilled and stays so, and the sink is not invoked for it.     *)
(***************************************************************************)
C5_SuppressedAsyncIsFulfilled ==
    \A i \in DOMAIN calls :
        (calls[i].logger = "async" /\ calls[i].level > logLevel) =>
            /\ calls[i].result = "promise"
            /\ promises[calls[i].promise].state = "fulfilled"
            /\ \A j \in DOMAIN sinkLog :
                  sinkLog[j].call # i /\ sinkLog[j].promise # calls[i].promise

C5_Witness ==
    /\ Len(calls) = 2
    /\ calls[1].logger = "async"
    /\ calls[1].level <= logLevel
    /\ promises[calls[1].promise].state = "rejected"
    /\ calls[2].level > logLevel
    /\ promises[calls[2].promise].state = "fulfilled"

C7_LaterOccurrencesKept ==
    fmt.pc = "done" =>
        \A k \in KeyNames :
            LET n == Cardinality(Occurrences(fmt.template, "$" \o k))
            IN n >= 2 => Cardinality(Occurrences(fmt.out, "$" \o k)) >= n - 1

C7_Witness ==
    /\ fmt.pc = "done"
    /\ fmt.template = "$message $message"
    /\ fmt.message = "hello"
    /\ fmt.out = "hello $message"

(***************************************************************************)
(* C8: the text an async logger hands to the sink is formatted with the    *)
(* time of the call, in the call, and no later step (time passing, a       *)
(* delivery completing, another call) changes it.                          *)
(***************************************************************************)
C8_TimestampIsCallTime ==
    [][ /\ \A j \in DOMAIN sinkLog : sinkLog'[j] = sinkLog[j]
        /\ (kind = "async" /\ Len(sinkLog') > Len(sinkLog))
              => LET e == sinkLog'[Len(sinkLog')]
                     c == calls'[e.call]
                 IN /\ e.time = clock
                    /\ e.text = FormattedMessage(format, moduleName, clock,
                                                 c.level, c.message)
                    /\ Contains(format, "$formattedTimestamp")
                          => Contains(e.text, toISOString(clock)) ]_vars

C8_Witness ==
    \E j \in DOMAIN sinkLog :
        /\ sinkLog[j].logger = "async"
        /\ promises[sinkLog[j].promise].state = "fulfilled"
        /\ clock # sinkLog[j].time
        /\ Contains(sinkLog[j].text, "2021-12-31T23:59:59.999Z")
        /\ toISOString(clock) = "2022-01-01T00:00:00.000Z"

(***************************************************************************)
(* C9: an async call that is not suppressed invokes the sink in the call   *)
(* itself, whether or not earlier deliveries are pending, and leaves their *)
(* promises alone; a delivery that completes settles its own promise only. *)
(***************************************************************************)
C9_NoSerialization ==
    [][ /\ (/\ kind = "async"
            /\ Len(calls') = Len(calls) + 1
            /\ calls'[Len(calls')].level <= logLevel)
           => /\ Len(sinkLog') = Len(sinkLog) + 1
              /\ sinkLog'[Len(sinkLog')].call = Len(calls')
              /\ sinkLog'[Len(sinkLog')].promise = calls'[Len(calls')].promise
              /\ \A p \in DOMAIN promises : promises'[p] = promises[p]
        /\ \A p \in DOMAIN promises :
              promises'[p] # promises[p]
                 => /\ promises[p].state = "pending"
                    /\ \A q \in DOMAIN promises \ {p} : promises'[q] = promises[q]
                    /\ calls' = calls
                    /\ sinkLog' = sinkLog ]_vars

\* the second delivery has completed while the first is still pending
C9_Witness ==
    /\ kind = "async"
    /\ Len(sinkLog) = 2
    /\ promises[sinkLog[1].promise].state = "pending"
    /\ promises[sinkLog[2].promise].state # "pending"

(***************************************************************************)
(* C10: text inserted as the value of one key is not substituted when a    *)
(* later key is processed: a $ followed by a parameter name inside the     *)
(* module name or the message stays literally in the output.               *)
(***************************************************************************)
C10_InsertedTextIsInert ==
    (/\ fmt.pc = "done"
     /\ \E k \in KeyNames :
           Contains(fmt.moduleName, "$" \o k) \/ Contains(fmt.message, "$" \o k)
     /\ NoReplacementPattern(fmt.moduleName)
     /\ NoReplacementPattern(fmt.message))
        => fmt.out = InertFormat(fmt.template, 1, {}, FmtParameters)
====
